---- MODULE Spec2Model ----
(***************************************************************************)
(* A model of the fetch-normalize-persist pipeline of mediatech_de_trial_task *)
(*   serpapi_retry.py  fetch_with_retry, _check_response_for_errors          *)
(*   csv_writer.py     write_trends_csv                                      *)
(*   normalize.py      normalize_trends_response                             *)
(*   validation.py     validate_trends_data                                  *)
(*   daily_search_dag.py  the per-term loop of fetch_google_trends           *)
(* Seven specifications share the module: SpecFetch, SpecCsv, SpecNorm,      *)
(* SpecVal, SpecLoop, SpecRace and SpecCheck.                                *)
(* Each one moves its own variables and leaves the others alone.             *)
(***************************************************************************)
EXTENDS Integers, Sequences, FiniteSets, TLC

VARIABLES
    pc,              \* fetch_with_retry: "attempt", "sleep", "returned", "raised"
    attempt_number,  \* tenacity's retry_state.attempt_number
    outcomes,        \* what each call of the wrapped function did, in order
    slept,           \* the backoff waits slept so far, in order
    raised,          \* the exception that left fetch_with_retry, or "none"
    file,            \* the destination CSV: Absent, or its data rows as text
    existed,         \* whether the last write_trends_csv call found the file
    batch,           \* the records of the last write_trends_csv call
    called,          \* whether write_trends_csv has been called at all
    response,        \* the response given to normalize_trends_response
    location,        \* the location given to normalize_trends_response
    records,         \* what normalize_trends_response returned
    validated,       \* the records given to validate_trends_data
    expected_terms,  \* the expected_search_terms given to validate_trends_data
    pandas_version,  \* the major version of the pandas the validator runs on
    report,          \* the report validate_trends_data returned
    loop_pc,         \* fetch_google_trends: "start", "loop", "returned", "raised"
    search_terms,    \* the search_terms Variable
    next_term,       \* the place in search_terms of the next term to fetch
    all_results,     \* all_results: search term -> its records
    fetched,         \* the fetches made so far: <<term, what the fetch did>>
    loop_raised,     \* the exception that left fetch_google_trends, or "none"
    wpc,             \* each writer's place in write_trends_csv
    wrecords,        \* each writer's records argument
    wexists,         \* what output_path.exists() last told each writer
    wframe,          \* the frame each writer is about to write
    calls,           \* the invocations of the writers so far
    overlapped,      \* whether an invocation began while another was under way
    persisted,       \* the records of the invocations that have written
    checked,         \* the response given to _check_response_for_errors
    verdict          \* the exception it raised, "none", or "pending"

fetchVars == <<pc, attempt_number, outcomes, slept, raised>>
csvVars   == <<file, existed, batch, called>>
normVars  == <<response, location, records>>
valVars   == <<validated, expected_terms, pandas_version, report>>
loopVars  == <<loop_pc, search_terms, next_term, all_results, fetched, loop_raised>>
raceVars  == <<wpc, wrecords, wexists, wframe, calls, overlapped, persisted>>
checkVars == <<checked, verdict>>
vars      == <<pc, attempt_number, outcomes, slept, raised,
               file, existed, batch, called, response, location, records,
               validated, expected_terms, pandas_version, report,
               loop_pc, search_terms, next_term, all_results, fetched, loop_raised,
               wpc, wrecords, wexists, wframe, calls, overlapped, persisted,
               checked, verdict>>

(***************************************************************************)
(* Small helpers.                                                          *)
(***************************************************************************)
Max(a, b) == IF a >= b THEN a ELSE b
Min(a, b) == IF a <= b THEN a ELSE b

RECURSIVE Pow(_, _)
Pow(b, e) == IF e = 0 THEN 1 ELSE b * Pow(b, e - 1)

Range(s) == {s[i] : i \in DOMAIN s}

\* The sequence a function over 1..n is, with every element evaluated.
AsSeq(f) == <<>> \o f

(***************************************************************************)
(* serpapi_retry.py                                                        *)
(***************************************************************************)

\* Text is a sequence of one-character strings, so that "kw in error_lower"
\* is a real substring search.
LowerChar(c) ==
    CASE c = "A" -> "a" [] c = "B" -> "b" [] c = "C" -> "c" [] c = "D" -> "d"
      [] c = "E" -> "e" [] c = "F" -> "f" [] c = "G" -> "g" [] c = "H" -> "h"
      [] c = "I" -> "i" [] c = "J" -> "j" [] c = "K" -> "k" [] c = "L" -> "l"
      [] c = "M" -> "m" [] c = "N" -> "n" [] c = "O" -> "o" [] c = "P" -> "p"
      [] c = "Q" -> "q" [] c = "R" -> "r" [] c = "S" -> "s" [] c = "T" -> "t"
      [] c = "U" -> "u" [] c = "V" -> "v" [] c = "W" -> "w" [] c = "X" -> "x"
      [] c = "Y" -> "y" [] c = "Z" -> "z"
      [] OTHER -> c

UpperLetters ==
    {"A", "B", "C", "D", "E", "F", "G", "H", "I", "J", "K", "L", "M",
     "N", "O", "P", "Q", "R", "S", "T", "U", "V", "W", "X", "Y", "Z"}

Lower(s) == [i \in DOMAIN s |-> LowerChar(s[i])]

IsSubstring(kw, s) ==
    \E i \in 0..(Len(s) - Len(kw)) : SubSeq(s, i + 1, i + Len(kw)) = kw

transient_keywords == <<
    <<"r","a","t","e"," ","l","i","m","i","t">>,
    <<"t","o","o"," ","m","a","n","y"," ","r","e","q","u","e","s","t","s">>,
    <<"4","2","9">>,
    <<"5","0","0">>,
    <<"5","0","2">>,
    <<"5","0","3">>,
    <<"5","0","4">>,
    <<"s","e","r","v","e","r"," ","e","r","r","o","r">>,
    <<"i","n","t","e","r","n","a","l"," ","e","r","r","o","r">>,
    <<"t","e","m","p","o","r","a","r","i","l","y"," ",
      "u","n","a","v","a","i","l","a","b","l","e">>,
    <<"t","i","m","e","o","u","t">>,
    <<"t","i","m","e","d"," ","o","u","t">> >>

\* A result of GoogleSearch(params).get_dict(): an exception of the library, or
\* a response dict whose "error" entry is absent (hasError = FALSE) or a text.
NoExc == "none"
Resp(hasError, error) == [exc |-> NoExc, hasError |-> hasError, error |-> error]
Exc(name) == [exc |-> name, hasError |-> FALSE, error |-> <<>>]

ErrorTexts == {
    <<"4","2","9">>,                          \* "429"
    <<"T","I","M","E","O","U","T">>,          \* "TIMEOUT"
    <<"e","r","r"," ","5","0","3","1">>,      \* "err 5031"
    <<"B","a","d"," ","k","e","y">>,          \* "Bad key"
    <<"4"," ","2","9">>,                      \* "4 29"
    <<>> }                                    \* ""

NetworkExceptions == {"ConnectionError", "Timeout", "ChunkedEncodingError"}
OtherExceptions == {"ValueError"}

CallResults ==
    {Resp(FALSE, <<>>)} \cup {Resp(TRUE, e) : e \in ErrorTexts}
      \cup {Exc(n) : n \in NetworkExceptions \cup OtherExceptions}

\* A classification that compares the keywords with the text as it is.
CheckCaseSensitive(results) ==
    IF ~results.hasError THEN NoExc
    ELSE IF \E i \in DOMAIN transient_keywords :
               IsSubstring(transient_keywords[i], results.error)
         THEN "SerpApiTransientError"
         ELSE "SerpApiPermanentError"

\* The exception _check_response_for_errors raises on a response, or "none".
_check_response_for_errors(results) ==
    IF ~results.hasError THEN NoExc
    ELSE LET error_lower == Lower(results.error)
         IN  IF \E i \in DOMAIN transient_keywords :
                    IsSubstring(transient_keywords[i], error_lower)
             THEN "SerpApiTransientError"
             ELSE "SerpApiPermanentError"

\* The responses the classification is checked on. An error text is a prefix,
\* a core and a suffix; the core is a transient keyword, in lower or in upper
\* case, or a text that holds none, and no prefix or suffix makes or breaks one.
UpperChar(c) ==
    IF \E u \in UpperLetters : LowerChar(u) = c
    THEN CHOOSE u \in UpperLetters : LowerChar(u) = c
    ELSE c
Upper(s) == [i \in DOMAIN s |-> UpperChar(s[i])]
OtherCores == {
    <<"B","a","d"," ","k","e","y">>,
    <<"4"," ","2","9">>,
    <<"I","n","v","a","l","i","d"," ","A","P","I"," ","k","e","y">>,
    <<"t","i","m","e"," ","o","u","t">>,
    <<"5","0","1">>,
    <<"Y","o","u","r"," ","a","c","c","o","u","n","t"," ","h","a","s"," ","r","u","n"," ","o","u","t"," ","o","f"," ","s","e","a","r","c","h","e","s",".">>,
    <<>> }
Prefixes == {<<>>, <<"E","r","r","o","r",":"," ">>}
Suffixes == {<<>>, <<"!">>, <<"1">>}
ErrorText(prefix, core, suffix) == AsSeq(prefix \o core \o suffix)
\* vocabulary: whether the text was built around a transient keyword.
CheckInput(hasError, error, vocabulary) ==
    [exc |-> NoExc, hasError |-> hasError, error |-> error, vocabulary |-> vocabulary]
CheckInputs ==
    {CheckInput(FALSE, <<>>, FALSE)}
      \cup {CheckInput(TRUE, ErrorText(p, transient_keywords[i], x), TRUE) :
               p \in Prefixes, i \in DOMAIN transient_keywords, x \in Suffixes}
      \cup {CheckInput(TRUE, ErrorText(p, Upper(transient_keywords[i]), x), TRUE) :
               p \in Prefixes, i \in DOMAIN transient_keywords, x \in Suffixes}
      \cup {CheckInput(TRUE, ErrorText(p, c, x), FALSE) :
               p \in Prefixes, c \in OtherCores, x \in Suffixes}

InitCheck ==
    /\ checked = CheckInput(FALSE, <<>>, FALSE)
    /\ verdict = "pending"

\* One call _check_response_for_errors(results).
Check ==
    /\ verdict = "pending"
    /\ \E input \in CheckInputs :
          /\ checked' = input
          /\ verdict' = _check_response_for_errors(input)

NextCheck == Check
    /\ UNCHANGED <<fetchVars, csvVars, normVars, valVars, loopVars, raceVars>>

\* The exception one call of the wrapped function body ends with, or "none".
BodyException(r) ==
    IF r.exc # NoExc THEN r.exc ELSE _check_response_for_errors(r)

\* retry=retry_if_exception_type((ConnectionError, Timeout,
\*                                ChunkedEncodingError, SerpApiTransientError))
RetryEverything(e) == e # NoExc

retry_if_exception_type(e) ==
    e \in NetworkExceptions \cup {"SerpApiTransientError"}

\* stop=stop_after_attempt(5)
MaxAttempts == 5

StopAfterSix(n) == n >= MaxAttempts + 1

stop_after_attempt(n) == n >= MaxAttempts

\* wait_exponential(multiplier=2, min=2, max=60), exp_base 2
WaitMultiplier == 2
WaitMin == 2
WaitMax == 60
wait_exponential(n) ==
    Max(Max(0, WaitMin), Min(WaitMultiplier * Pow(2, n - 1), WaitMax))

\* random.uniform(0, 2), in whole seconds
JitterMax == 2
_add_jitter(n) == {wait_exponential(n) + j : j \in 0..JitterMax}

InitFetch ==
    /\ pc = "attempt"
    /\ attempt_number = 1
    /\ outcomes = <<>>
    /\ slept = <<>>
    /\ raised = NoExc

\* One call of the wrapped function, and tenacity's decision about its outcome.
Attempt ==
    /\ pc = "attempt"
    /\ \E r \in CallResults :
         LET e == BodyException(r)
         IN  /\ outcomes' = Append(outcomes, e)
             /\ IF e = NoExc
                THEN /\ pc' = "returned"
                     /\ raised' = NoExc
                ELSE IF ~retry_if_exception_type(e)
                     \/ stop_after_attempt(attempt_number)
                THEN /\ pc' = "raised"         \* reraise=True: the exception itself
                     /\ raised' = e
                ELSE /\ pc' = "sleep"
                     /\ raised' = NoExc
    /\ UNCHANGED <<attempt_number, slept>>

\* The blocking backoff sleep between two attempts.
Backoff ==
    /\ pc = "sleep"
    /\ \E w \in _add_jitter(attempt_number) : slept' = Append(slept, w)
    /\ attempt_number' = attempt_number + 1
    /\ pc' = "attempt"
    /\ UNCHANGED <<outcomes, raised>>

NextFetch ==
    \/ Attempt /\ UNCHANGED <<csvVars, normVars, valVars, loopVars, raceVars, checkVars>>
    \/ Backoff /\ UNCHANGED <<csvVars, normVars, valVars, loopVars, raceVars, checkVars>>

(***************************************************************************)
(* csv_writer.py                                                           *)
(***************************************************************************)

\* A cell of a DataFrame: a Python str, an int64, a float64 (whole-valued in
\* this model) or NaN.
StrCell(s) == [k |-> "str", s |-> s, n |-> 0]
IntCell(n) == [k |-> "int", s |-> "", n |-> n]
FltCell(n) == [k |-> "float", s |-> "", n |-> n]
NaN == [k |-> "nan", s |-> "", n |-> 0]

\* One row: a record of the six columns, in the order of the CSV header.
Row(query, loc, date, value, extracted_value, created_at) ==
    [query |-> query, location |-> loc, date |-> date, value |-> value,
     extracted_value |-> extracted_value, created_at |-> created_at]

\* The numbers whose decimal text the records of this model use.
Nums == {0, 75, 80}
IntText(n) == ToString(n)
FloatText(n) == ToString(n) \o ".0"
IntTexts == {IntText(n) : n \in Nums}
FloatTexts == {FloatText(n) : n \in Nums}
NumOf(t) == CHOOSE n \in Nums : t = IntText(n) \/ t = FloatText(n)

\* pandas' default NA texts (read_csv, keep_default_na=True).
NaTexts == {"", "#N/A", "#N/A N/A", "#NA", "-1.#IND", "-1.#QNAN", "-NaN", "-nan",
            "1.#IND", "1.#QNAN", "<NA>", "N/A", "NA", "NULL", "NaN", "None",
            "n/a", "nan", "null"}

\* pd.DataFrame(records): one row per record; the str fields are object cells,
\* extracted_value is an int64 column.
DataFrame(recs) ==
    AsSeq([i \in DOMAIN recs |->
        Row(StrCell(recs[i].query), StrCell(recs[i].location), StrCell(recs[i].date),
            StrCell(recs[i].value), IntCell(recs[i].extracted_value),
            StrCell(recs[i].created_at))])

\* DataFrame.to_csv(index=False): the text of each cell; NaN is written empty.
CellText(v) ==
    CASE v.k = "str" -> v.s
      [] v.k = "int" -> IntText(v.n)
      [] v.k = "float" -> FloatText(v.n)
      [] OTHER -> ""

to_csv(df) ==
    AsSeq([i \in DOMAIN df |->
        Row(CellText(df[i].query), CellText(df[i].location), CellText(df[i].date),
            CellText(df[i].value), CellText(df[i].extracted_value),
            CellText(df[i].created_at))])

\* pd.read_csv: each column's type is inferred from all of its texts. An NA text
\* is NaN; a column of integers is int64; numbers with NaN are float64; anything
\* else is an object column whose texts stay as they are.
ColumnType(texts) ==
    IF \A i \in DOMAIN texts : texts[i] \in NaTexts THEN "float64"
    ELSE IF \A i \in DOMAIN texts : texts[i] \in IntTexts THEN "int64"
    ELSE IF \A i \in DOMAIN texts : texts[i] \in NaTexts \cup IntTexts \cup FloatTexts
         THEN "float64"
    ELSE "object"

ParseCell(dtype, t) ==
    IF dtype = "int64" THEN IntCell(NumOf(t))
    ELSE IF t \in NaTexts THEN NaN
    ELSE IF dtype = "float64" THEN FltCell(NumOf(t))
    ELSE StrCell(t)

read_csv(rows) ==
    LET dtype == Row(ColumnType(AsSeq([j \in DOMAIN rows |-> rows[j].query])),
                     ColumnType(AsSeq([j \in DOMAIN rows |-> rows[j].location])),
                     ColumnType(AsSeq([j \in DOMAIN rows |-> rows[j].date])),
                     ColumnType(AsSeq([j \in DOMAIN rows |-> rows[j].value])),
                     ColumnType(AsSeq([j \in DOMAIN rows |-> rows[j].extracted_value])),
                     ColumnType(AsSeq([j \in DOMAIN rows |-> rows[j].created_at])))
    IN  AsSeq([i \in DOMAIN rows |->
            Row(ParseCell(dtype.query, rows[i].query),
                ParseCell(dtype.location, rows[i].location),
                ParseCell(dtype.date, rows[i].date),
                ParseCell(dtype.value, rows[i].value),
                ParseCell(dtype.extracted_value, rows[i].extracted_value),
                ParseCell(dtype.created_at, rows[i].created_at))])

\* pd.concat([existing_df, new_df], ignore_index=True): the rows of both, in
\* order. An int64 column under a float64 one becomes float64.
UpcastCell(v, others) ==
    IF /\ v.k = "int"
       /\ \E j \in DOMAIN others : others[j].k = "float"
       /\ \A j \in DOMAIN others : others[j].k \in {"float", "nan"}
    THEN FltCell(v.n) ELSE v

Upcast(df, other) ==
    AsSeq([i \in DOMAIN df |->
        Row(UpcastCell(df[i].query, AsSeq([j \in DOMAIN other |-> other[j].query])),
            UpcastCell(df[i].location, AsSeq([j \in DOMAIN other |-> other[j].location])),
            UpcastCell(df[i].date, AsSeq([j \in DOMAIN other |-> other[j].date])),
            UpcastCell(df[i].value, AsSeq([j \in DOMAIN other |-> other[j].value])),
            UpcastCell(df[i].extracted_value,
                       AsSeq([j \in DOMAIN other |-> other[j].extracted_value])),
            UpcastCell(df[i].created_at,
                       AsSeq([j \in DOMAIN other |-> other[j].created_at])))])

concat(existing_df, new_df) ==
    Upcast(existing_df, new_df) \o Upcast(new_df, existing_df)

\* The order of the created_at texts of this model (Python compares str by
\* code point: "" first, then the formatted times in time order).
T1 == "2025-01-15 12:00:00+0000"
T2 == "2025-01-16 12:00:00+0000"
CreatedOrder == <<"", T1, T2>>
RankOf(t) == CHOOSE i \in DOMAIN CreatedOrder : CreatedOrder[i] = t

\* DataFrame.sort_values("created_at"): ascending, NaN last (na_position="last").
\* The default kind is quicksort; numpy sorts a run of at most 16 elements by
\* insertion, so a frame of this model's size comes out in stable order: rows
\* with equal created_at keep the order concat gave them.
Precedes(df, i, j) ==       \* row i stands before row j after the sort
    IF df[i].created_at.k = "nan"
    THEN df[j].created_at.k = "nan" /\ i < j
    ELSE \/ df[j].created_at.k = "nan"
         \/ RankOf(df[i].created_at.s) < RankOf(df[j].created_at.s)
         \/ RankOf(df[i].created_at.s) = RankOf(df[j].created_at.s) /\ i < j

sort_values(df) ==
    LET pos == AsSeq([i \in DOMAIN df |->
                   1 + Cardinality({j \in DOMAIN df : Precedes(df, j, i)})])
    IN  AsSeq([p \in DOMAIN df |-> df[CHOOSE i \in DOMAIN df : pos[i] = p]])

\* DataFrame.drop_duplicates(subset=["query", "date", "location"], keep="last").
\* NaN equals NaN and differs from every str; 80 equals 80.0.
KeyCell(v) == IF v.k = "float" THEN IntCell(v.n) ELSE v
KeyOf(row) == <<KeyCell(row.query), KeyCell(row.date), KeyCell(row.location)>>

RECURSIVE Select(_, _)
Select(s, keep) ==          \* the elements of s whose index is in keep, in order
    IF s = <<>> THEN <<>>
    ELSE LET front == Select(SubSeq(s, 1, Len(s) - 1), keep)
         IN  IF Len(s) \in keep THEN Append(front, s[Len(s)]) ELSE front

drop_duplicates(df) ==
    Select(df, {i \in DOMAIN df :
                  \A j \in DOMAIN df : j > i => KeyOf(df[j]) # KeyOf(df[i])})

\* The destination file: absent, or its data rows as the text of their cells.
Absent == [exists |-> FALSE, rows |-> <<>>]
Stored(rows) == [exists |-> TRUE, rows |-> rows]

\* The file one call write_trends_csv(recs, output_path) leaves behind.
WriteEmptyToo(f, recs) ==
    IF f.exists
    THEN Stored(to_csv(drop_duplicates(sort_values(
             concat(read_csv(f.rows), DataFrame(recs))))))
    ELSE Stored(to_csv(DataFrame(recs)))

write_trends_csv(f, recs) ==
    IF recs = <<>> THEN f                                 \* "if not records: return"
    ELSE IF f.exists
    THEN Stored(to_csv(drop_duplicates(sort_values(
             concat(read_csv(f.rows), DataFrame(recs))))))
    ELSE Stored(to_csv(DataFrame(recs)))

\* The records the calls of this model persist: what normalize_trends_response
\* emits for a point with and without a timestamp and for a value entry with no
\* fields.
D1 == "2025-01-05 00:00:00+0000"
TrendRecord(q, d, v, ev, created) == Row(q, "US", d, v, ev, created)

RecordPool == {
    TrendRecord("vpn", D1, "80", 80, T1),
    TrendRecord("vpn", D1, "75", 75, T2),
    TrendRecord("vpn", "", "80", 80, T1),
    TrendRecord("", D1, "", 0, T2) }

MaxBatch == 2
Batches == UNION {[1..n -> RecordPool] : n \in 0..MaxBatch}

InitCsv ==
    /\ file = Absent
    /\ existed = FALSE
    /\ batch = <<>>
    /\ called = FALSE

Write ==
    \E recs \in Batches :
        /\ file' = write_trends_csv(file, recs)
        /\ existed' = file.exists
        /\ batch' = recs
        /\ called' = TRUE

NextCsv == Write /\ UNCHANGED <<fetchVars, normVars, valVars, loopVars, raceVars, checkVars>>

\* Two invocations of write_trends_csv on one destination, run by two workers
\* with nothing to keep one out while the other is between its read and its
\* write. An invocation is three steps: output_path.exists() (line 43), the
\* read and merge (lines 44-47), the to_csv (line 48 or 50).
Writers == {1, 2}
MaxCalls == 3
RaceBatches == {<<>>} \cup {<<r>> : r \in RecordPool}

\* A merge that forgets the existing rows.
MergeDropsExisting(rows, recs) == DataFrame(recs)

\* Lines 44-47: the frame to write back, from the rows read and the new records.
MergeFrame(rows, recs) ==
    drop_duplicates(sort_values(concat(read_csv(rows), DataFrame(recs))))

InitRace ==
    /\ wpc = [w \in Writers |-> "idle"]
    /\ wrecords = [w \in Writers |-> <<>>]
    /\ wexists = [w \in Writers |-> FALSE]
    /\ wframe = [w \in Writers |-> <<>>]
    /\ calls = 0
    /\ overlapped = FALSE
    /\ persisted = {}

\* Lines 34-43: the call; an empty batch returns at once, otherwise the new
\* frame is built and the destination tested for existence.
Enter(w) ==
    /\ wpc[w] = "idle"
    /\ calls < MaxCalls
    /\ calls' = calls + 1
    /\ \E recs \in RaceBatches :
          IF recs = <<>>
          THEN UNCHANGED <<wpc, wrecords, wexists, wframe, overlapped>>
          ELSE /\ wpc' = [wpc EXCEPT ![w] = "checked"]
               /\ wrecords' = [wrecords EXCEPT ![w] = recs]
               /\ wexists' = [wexists EXCEPT ![w] = file.exists]
               /\ wframe' = [wframe EXCEPT ![w] = DataFrame(recs)]
               /\ overlapped' = (overlapped \/ \E o \in Writers \ {w} : wpc[o] # "idle")
    /\ UNCHANGED <<file, persisted>>

\* Lines 44-47, when the destination existed: read it and merge.
ReadExisting(w) ==
    /\ wpc[w] = "checked"
    /\ wexists[w]
    /\ wpc' = [wpc EXCEPT ![w] = "merged"]
    /\ wframe' = [wframe EXCEPT ![w] = MergeFrame(file.rows, wrecords[w])]
    /\ UNCHANGED <<file, wrecords, wexists, calls, overlapped, persisted>>

\* Line 48 or 50: write the frame over the destination, and return.
WriteBack(w) ==
    /\ \/ wpc[w] = "merged"
       \/ wpc[w] = "checked" /\ ~wexists[w]
    /\ file' = Stored(to_csv(wframe[w]))
    /\ persisted' = persisted \cup Range(wrecords[w])
    /\ wpc' = [wpc EXCEPT ![w] = "idle"]
    /\ wrecords' = [wrecords EXCEPT ![w] = <<>>]
    /\ wframe' = [wframe EXCEPT ![w] = <<>>]
    /\ UNCHANGED <<wexists, calls, overlapped>>

NextRace ==
    \/ \E w \in Writers : Enter(w) /\ UNCHANGED <<existed, batch, called, fetchVars, normVars, valVars, loopVars, checkVars>>
    \/ \E w \in Writers : ReadExisting(w) /\ UNCHANGED <<existed, batch, called, fetchVars, normVars, valVars, loopVars, checkVars>>
    \/ \E w \in Writers : WriteBack(w) /\ UNCHANGED <<existed, batch, called, fetchVars, normVars, valVars, loopVars, checkVars>>

(***************************************************************************)
(* normalize.py                                                            *)
(***************************************************************************)

\* A JSON value of the response as Python sees it: a key that is absent, None,
\* a str, an int, a list or a dict. Every value has the same fields, so that
\* any two compare.
Missing == [k |-> "absent", s |-> "", n |-> 0, items |-> <<>>]
PyNone == [k |-> "none", s |-> "", n |-> 0, items |-> <<>>]
PyStr(s) == [k |-> "str", s |-> s, n |-> 0, items |-> <<>>]
PyInt(n) == [k |-> "int", s |-> "", n |-> n, items |-> <<>>]
PyList(items) == [k |-> "list", s |-> "", n |-> 0, items |-> items]

\* dict.get(key, default): the default only when the key is absent.
Get(v, default) == IF v.k = "absent" THEN default ELSE v

\* Python truth: None, "", 0, [] and {} are false.
Truthy(v) ==
    CASE v.k = "absent" -> FALSE
      [] v.k = "none" -> FALSE
      [] v.k = "str" -> v.s # ""
      [] v.k = "int" -> v.n # 0
      [] v.k = "list" -> v.items # <<>>
      [] OTHER -> TRUE

\* datetime.fromtimestamp(ts, tz=timezone.utc).strftime("%Y-%m-%d %H:%M:%S%z")
Pad2(n) == IF n < 10 THEN "0" \o ToString(n) ELSE ToString(n)
Pad4(n) ==
    IF n < 10 THEN "000" \o ToString(n)
    ELSE IF n < 100 THEN "00" \o ToString(n)
    ELSE IF n < 1000 THEN "0" \o ToString(n)
    ELSE ToString(n)

SecondsPerDay == 86400
CivilDate(days) ==          \* days since 1970-01-01 to <<year, month, day>>
    LET z == days + 719468
        era == z \div 146097
        doe == z - era * 146097
        yoe == (doe - doe \div 1460 + doe \div 36524 - doe \div 146096) \div 365
        doy == doe - (365 * yoe + yoe \div 4 - yoe \div 100)
        mp == (5 * doy + 2) \div 153
        d == doy - (153 * mp + 2) \div 5 + 1
        m == IF mp < 10 THEN mp + 3 ELSE mp - 9
        y == yoe + era * 400 + (IF m <= 2 THEN 1 ELSE 0)
    IN  <<y, m, d>>

FormatUtc(ts) ==
    LET ymd == CivilDate(ts \div SecondsPerDay)
        rem == ts % SecondsPerDay
    IN  Pad4(ymd[1]) \o "-" \o Pad2(ymd[2]) \o "-" \o Pad2(ymd[3]) \o " "
          \o Pad2(rem \div 3600) \o ":" \o Pad2((rem % 3600) \div 60) \o ":"
          \o Pad2(rem % 60) \o "+0000"

\* int(raw) of a str: the epoch seconds this model's responses use, as decimal
\* text; any other text is a ValueError.
Epochs == {1736035200, 1736640000}
EpochText == [n \in Epochs |-> ToString(n)]
IsIntText(s) == \E n \in Epochs : s = EpochText[n]
IntOfText(s) == CHOOSE n \in Epochs : s = EpochText[n]
\* The formatted time of each epoch of the model, computed once.
EpochUtc == [n \in Epochs |-> FormatUtc(n)]

_format_timestamp(raw) ==
    IF ~Truthy(raw) THEN ""
    ELSE IF raw.k = "int" THEN EpochUtc[raw.n]
    ELSE IF IsIntText(raw.s) THEN EpochUtc[IntOfText(raw.s)]
    ELSE raw.s                               \* except (ValueError, OSError)

\* datetime.strptime(raw, "%Y-%m-%d %H:%M:%S %Z"): a date and time, a space and a
\* zone name. %Z leaves the datetime naive, so the code stamps it UTC and
\* strftime("%Y-%m-%d %H:%M:%S%z") ends in +0000.
Stamps == {"2025-01-15 12:00:00", "2025-01-16 12:00:00"}
ZoneNames == {"UTC", "GMT"}
IsSerpApiTime(s) == \E st \in Stamps, z \in ZoneNames : s = st \o " " \o z
StampOf(s) == CHOOSE st \in Stamps : \E z \in ZoneNames : s = st \o " " \o z

_format_datetime(raw) ==
    IF ~Truthy(raw) THEN ""
    ELSE IF IsSerpApiTime(raw.s) THEN StampOf(raw.s) \o "+0000"
    ELSE raw.s                               \* except ValueError

\* A value entry, a timeline point and a response; each field is a JSON value.
ValueEntry(q, v, ev) == [query |-> q, value |-> v, extracted_value |-> ev]
TimelinePoint(ts, date, values) == [timestamp |-> ts, date |-> date, values |-> values]
\* interest: "absent", "none", or "dict"; other: the dict has further keys.
Response(interest, other, timeline_data, created_at) ==
    [interest |-> interest, other |-> other, timeline_data |-> timeline_data,
     created_at |-> created_at]

Returned(recs) == [state |-> "returned", out |-> recs]
Raised(exc) == [state |-> exc, out |-> <<>>]
NotCalled == [state |-> "pending", out |-> <<>>]

\* A loop body that stops after the first value entry of a point.
PointRecordsFirstOnly(point, loc, created_at) ==
    LET date == _format_timestamp(Get(point.timestamp, PyStr("")))
        vals == Get(point.values, PyList(<<>>)).items
    IN  [j \in DOMAIN vals \cap {1} |->
            [query |-> Get(vals[j].query, PyStr("")),
             location |-> PyStr(loc),
             date |-> PyStr(date),
             value |-> Get(vals[j].value, PyStr("")),
             extracted_value |-> Get(vals[j].extracted_value, PyInt(0)),
             created_at |-> PyStr(created_at)]]

\* The records of one point: "for val in point.get("values", []): records.append"
PointRecords(point, loc, created_at) ==
    LET date == _format_timestamp(Get(point.timestamp, PyStr("")))
        vals == Get(point.values, PyList(<<>>)).items
    IN  [j \in DOMAIN vals |->
            [query |-> Get(vals[j].query, PyStr("")),
             location |-> PyStr(loc),
             date |-> PyStr(date),
             value |-> Get(vals[j].value, PyStr("")),
             extracted_value |-> Get(vals[j].extracted_value, PyInt(0)),
             created_at |-> PyStr(created_at)]]

\* Iterating None is a TypeError.
Iterable(v) == v.k # "none"

RECURSIVE Flatten(_, _, _)
Flatten(points, loc, created_at) ==
    IF points = <<>> THEN <<>>
    ELSE Flatten(SubSeq(points, 1, Len(points) - 1), loc, created_at)
           \o PointRecords(points[Len(points)], loc, created_at)

NormalizeNoTimelineGuard(resp, loc) ==
    IF resp.interest # "dict" \/ (resp.timeline_data.k = "absent" /\ ~resp.other)
    THEN Returned(<<>>)
    ELSE IF resp.timeline_data.k # "list"
    THEN Raised("TypeError")                 \* "for point in None"
    ELSE LET created_at == _format_datetime(Get(resp.created_at, PyStr("")))
             points == resp.timeline_data.items
         IN  IF \E i \in DOMAIN points :
                    ~Iterable(Get(points[i].values, PyList(<<>>)))
             THEN Raised("TypeError")
             ELSE Returned(Flatten(points, loc, created_at))

normalize_trends_response(resp, loc) ==
    IF resp.interest # "dict" \/ (resp.timeline_data.k = "absent" /\ ~resp.other)
    THEN Returned(<<>>)                      \* "if not interest: return []"
    ELSE IF ~Truthy(resp.timeline_data)
    THEN Returned(<<>>)                      \* "if not timeline_data: return []"
    ELSE LET created_at == _format_datetime(Get(resp.created_at, PyStr("")))
             points == resp.timeline_data.items
         IN  IF \E i \in DOMAIN points :
                    ~Iterable(Get(points[i].values, PyList(<<>>)))
             THEN Raised("TypeError")
             ELSE Returned(Flatten(points, loc, created_at))

\* The responses of this model.
MaxPoints == 2
MaxValues == 2
Label == "Jan 5 - 11, 2025"
Entries == {ValueEntry(PyStr("vpn"), PyStr("80"), PyInt(80)),
            ValueEntry(Missing, Missing, Missing)}
ValuesOptions ==
    {Missing, PyNone}
      \cup {PyList(l) : l \in UNION {[1..n -> Entries] : n \in 0..MaxValues}}
Headers == {<<PyStr("1736035200"), PyStr(Label)>>, <<Missing, PyStr(Label)>>,
            <<PyStr("1736640000"), Missing>>, <<Missing, Missing>>}
Points == {TimelinePoint(h[1], h[2], v) : h \in Headers, v \in ValuesOptions}
CreatedAts == {Missing, PyStr("2025-01-15 12:00:00 UTC")}
\* The responses with no timeline: interest_over_time absent, None, {} or a dict
\* of other keys, or timeline_data None.
NoTimeline(c) ==
    {Response(i, FALSE, Missing, c) : i \in {"absent", "none"}}
      \cup {Response("dict", o, t, c) : o \in BOOLEAN, t \in {Missing, PyNone}}
Locations == {"US"}

InitNorm ==
    /\ response = Response("absent", FALSE, Missing, Missing)
    /\ location = "US"
    /\ records = NotCalled

\* One call normalize_trends_response(response, location).
Call(resp, loc) ==
    /\ response' = resp
    /\ location' = loc
    /\ records' = normalize_trends_response(resp, loc)

Normalize ==
    /\ records = NotCalled
    /\ \E c \in CreatedAts, loc \in Locations :
          \/ \E resp \in NoTimeline(c) : Call(resp, loc)
          \/ \E n \in 0..MaxPoints : \E l \in [1..n -> Points] :
                Call(Response("dict", FALSE, PyList(l), c), loc)

NextNorm == Normalize /\ UNCHANGED <<fetchVars, csvVars, valVars, loopVars, raceVars, checkVars>>

(***************************************************************************)
(* validation.py                                                           *)
(***************************************************************************)
\* A record given to the validator is a dict: a function from the keys it has
\* to JSON values. Its keys are in the order of KeyOrder (the order in which
\* normalize and the tests build a record, further keys after the six).
KeyOrder == <<"query", "location", "date", "value", "extracted_value",
              "created_at", "bonus_col", "timestamp", "date_range">>
KeysOf(rec) == SelectSeq(KeyOrder, LAMBDA c : c \in DOMAIN rec)

_NUMERIC_FIELDS == {"extracted_value"}
\* TrendRecord.__annotations__, each field "numeric" or "string".
EXPECTED_SCHEMA ==
    [field \in {"query", "location", "date", "value", "extracted_value", "created_at"}
        |-> IF field \in _NUMERIC_FIELDS THEN "numeric" ELSE "string"]
SchemaOrder == SubSeq(KeyOrder, 1, 6)        \* EXPECTED_SCHEMA.items() order

\* pd.DataFrame(records).columns: the keys in the order they first appear.
RECURSIVE Columns(_)
Columns(recs) ==
    IF recs = <<>> THEN <<>>
    ELSE LET before == Columns(SubSeq(recs, 1, Len(recs) - 1))
         IN  before \o SelectSeq(KeysOf(recs[Len(recs)]),
                                 LAMBDA c : c \notin Range(before))

\* df[col]: the values of one column, NaN (Missing) where a record lacks the key.
Column(recs, col) ==
    AsSeq([i \in DOMAIN recs |->
              IF col \in DOMAIN recs[i] THEN recs[i][col] ELSE Missing])

\* The dtype pandas infers for a column built from Python objects: int64 when
\* every value is an int, float64 when ints stand beside None / NaN (None turns
\* into NaN), object for everything else (str, mixed, or nothing but None).
Dtype(values) ==
    LET kinds == {values[i].k : i \in DOMAIN values}
    IN  IF kinds = {"int"} THEN "int64"
        ELSE IF "int" \in kinds /\ "str" \notin kinds /\ "list" \notin kinds
        THEN "float64"
        ELSE "object"

isna(v) == v.k \in {"none", "absent"}

\* pd.api.types.is_numeric_dtype(df[col])
is_numeric_dtype(values) == Dtype(values) \in {"int64", "float64"}

\* pd.api.types.is_string_dtype(df[col]). pandas 1.x: every object column.
\* pandas 2.x: an object column whose elements are all str (None / NaN are not).
PandasVersions == {1, 2}
is_string_dtype(values, pandas) ==
    /\ Dtype(values) = "object"
    /\ pandas >= 2 => \A i \in DOMAIN values : values[i].k = "str"

\* str.strip() of the texts of this model: the whitespace-only ones become "",
\* no other text has whitespace at an end.
WhitespaceOnly == {" ", "  "}
Strip(s) == IF s \in WhitespaceOnly THEN "" ELSE s

\* df[col].astype(str): str(None) is "None", str(nan) is "nan".
AsTypeStr(v) ==
    CASE v.k = "str" -> v.s
      [] v.k = "int" -> ToString(v.n)
      [] v.k = "none" -> "None"
      [] OTHER -> "nan"

\* sorted(): Python orders str by code point; the texts of this model in that
\* order.
TextOrder == <<"", "W1", "W2", "antivirus", "bonus", "bonus_col", "created_at",
               "date", "date_range", "extracted_value", "location", "query",
               "timestamp", "value", "vpn">>
sorted(texts) == SelectSeq(TextOrder, LAMBDA t : t \in texts)

\* repr of a list of str: ['a', 'b']
RECURSIVE ReprItems(_)
ReprItems(l) ==
    IF l = <<>> THEN ""
    ELSE IF Len(l) = 1 THEN "'" \o l[1] \o "'"
    ELSE "'" \o l[1] \o "', " \o ReprItems(Tail(l))
Repr(l) == "[" \o ReprItems(l) \o "]"

RECURSIVE ConcatAll(_)
ConcatAll(ss) == IF ss = <<>> THEN <<>> ELSE Head(ss) \o ConcatAll(Tail(ss))
Count(flags) == Cardinality({i \in DOMAIN flags : flags[i]})

\* report = {"record_count": len(records), ..., "valid": True}
NewReport(recs) ==
    [record_count |-> Len(recs), schema_errors |-> <<>>, coverage_gaps |-> <<>>,
     anomalies |-> <<>>, valid |-> TRUE]

\* Each check appends its messages and, where the code does, clears valid.
_check_schema(recs, rep, pandas) ==
    LET expected_cols == DOMAIN EXPECTED_SCHEMA
        actual_cols == Range(Columns(recs))
        missing == expected_cols \ actual_cols
        extra == actual_cols \ expected_cols
        missingMsg == IF missing # {}
                      THEN <<"Missing columns: " \o Repr(sorted(missing))>>
                      ELSE <<>>
        extraMsg == IF extra # {}
                    THEN <<"Unexpected columns: " \o Repr(sorted(extra))>>
                    ELSE <<>>
        TypeMsg(col) ==
            LET values == Column(recs, col)
            IN  IF col \notin actual_cols THEN <<>>
                ELSE IF EXPECTED_SCHEMA[col] = "numeric" /\ ~is_numeric_dtype(values)
                THEN <<"Column '" \o col \o "' expected numeric, got " \o Dtype(values)>>
                ELSE IF EXPECTED_SCHEMA[col] = "string" /\ ~is_string_dtype(values, pandas)
                THEN <<"Column '" \o col \o "' expected string, got " \o Dtype(values)>>
                ELSE <<>>
        msgs == missingMsg \o extraMsg
                  \o ConcatAll([i \in DOMAIN SchemaOrder |-> TypeMsg(SchemaOrder[i])])
    IN  [rep EXCEPT !.schema_errors = @ \o msgs,
                       !.valid = IF msgs # <<>> THEN FALSE ELSE @]

\* A coverage check that looks for each term anywhere in the frame, not per date.
CoverageIgnoringDates(recs, expected_search_terms, rep) ==
    LET cols == Range(Columns(recs))
        dates == Column(recs, "date")
        queries == Column(recs, "query")
        expected == Range(expected_search_terms)
        keys == sorted({dates[i].s : i \in {j \in DOMAIN dates : ~isna(dates[j])}})
        Missing_(dt) ==
            {t \in expected : \A i \in DOMAIN recs : queries[i] # PyStr(t)}
        GroupMsg(dt) ==
            IF Missing_(dt) # {}
            THEN <<"Date " \o dt \o ": missing search terms "
                     \o Repr(sorted(Missing_(dt)))>>
            ELSE <<>>
        msgs == ConcatAll([i \in DOMAIN keys |-> GroupMsg(keys[i])])
    IN  IF "query" \notin cols \/ "date" \notin cols THEN rep
        ELSE [rep EXCEPT !.coverage_gaps = @ \o msgs,
                         !.valid = IF msgs # <<>> THEN FALSE ELSE @]

\* df.groupby("date"): one group per non-null date, in sorted order; the model's
\* dates are str or null.
_check_search_term_coverage(recs, expected_search_terms, rep) ==
    LET cols == Range(Columns(recs))
        dates == Column(recs, "date")
        queries == Column(recs, "query")
        expected == Range(expected_search_terms)
        keys == sorted({dates[i].s : i \in {j \in DOMAIN dates : ~isna(dates[j])}})
        Missing_(dt) ==
            {t \in expected :
                \A i \in DOMAIN recs : dates[i] = PyStr(dt) => queries[i] # PyStr(t)}
        GroupMsg(dt) ==
            IF Missing_(dt) # {}
            THEN <<"Date " \o dt \o ": missing search terms "
                     \o Repr(sorted(Missing_(dt)))>>
            ELSE <<>>
        msgs == ConcatAll([i \in DOMAIN keys |-> GroupMsg(keys[i])])
    IN  IF "query" \notin cols \/ "date" \notin cols THEN rep
        ELSE [rep EXCEPT !.coverage_gaps = @ \o msgs,
                            !.valid = IF msgs # <<>> THEN FALSE ELSE @]

_check_null_values(recs, rep, pandas) ==
    LET columns == Columns(recs)
        Total(col) ==
            LET values == Column(recs, col)
                null_count == Count([i \in DOMAIN values |-> isna(values[i])])
                empty_count ==
                    IF is_string_dtype(values, pandas)
                    THEN Count([i \in DOMAIN values |-> Strip(AsTypeStr(values[i])) = ""])
                    ELSE 0
            IN  null_count + empty_count
        ColMsg(col) ==
            IF Total(col) > 0
            THEN <<"Column '" \o col \o "' has " \o ToString(Total(col))
                     \o " null/empty value(s)">>
            ELSE <<>>
        msgs == ConcatAll([i \in DOMAIN columns |-> ColMsg(columns[i])])
    IN  [rep EXCEPT !.anomalies = @ \o msgs,
                       !.valid = IF msgs # <<>> THEN FALSE ELSE @]

\* A zero-value check that also clears valid.
ZeroClearsValid(recs, rep) ==
    LET zero_count ==
            LET values == Column(recs, "extracted_value")
            IN Count([i \in DOMAIN values |->
                         values[i].k = "int" /\ values[i].n = 0])
    IN  IF "extracted_value" \notin Range(Columns(recs)) \/ zero_count = 0
        THEN rep
        ELSE [rep EXCEPT !.anomalies =
                  Append(@, ToString(zero_count) \o " record(s) with zero extracted_value"),
                         !.valid = FALSE]

\* (df["extracted_value"] == 0).sum(); valid is left as it is.
_check_zero_extracted_values(recs, rep) ==
    LET zero_count ==
            LET values == Column(recs, "extracted_value")
            IN Count([i \in DOMAIN values |->
                         values[i].k = "int" /\ values[i].n = 0])
    IN  IF "extracted_value" \notin Range(Columns(recs)) \/ zero_count = 0
        THEN rep
        ELSE [rep EXCEPT !.anomalies =
                  Append(@, ToString(zero_count) \o " record(s) with zero extracted_value")]

\* datetime.strptime(text, "%Y-%m-%d").replace(tzinfo=utc).timestamp()
DaysFromCivil(y, m, d) ==
    LET yy == IF m <= 2 THEN y - 1 ELSE y
        era == yy \div 400
        yoe == yy - era * 400
        mp == IF m > 2 THEN m - 3 ELSE m + 9
        doy == (153 * mp + 2) \div 5 + d - 1
        doe == yoe * 365 + yoe \div 4 - yoe \div 100 + doy
    IN  era * 146097 + doe - 719468
DateText(ymd) == Pad4(ymd[1]) \o "-" \o Pad2(ymd[2]) \o "-" \o Pad2(ymd[3])
DateEpoch(ymd) == DaysFromCivil(ymd[1], ymd[2], ymd[3]) * SecondsPerDay

\* The "YYYY-MM-DD YYYY-MM-DD" windows of this model, with their texts; any
\* other text does not split into two dates.
Windows == {<<<<2025, 1, 1>>, <<2025, 1, 21>>>>, <<<<2025, 1, 5>>, <<2025, 1, 12>>>>}
WindowText == [w \in Windows |-> DateText(w[1]) \o " " \o DateText(w[2])]
IsWindowText(s) == \E w \in Windows : WindowText[w] = s
WindowOf(s) == CHOOSE w \in Windows : WindowText[w] = s

\* pd.to_numeric(df["timestamp"], errors="coerce").dropna()
ToNumeric(values) ==
    {IF values[i].k = "int" THEN values[i].n ELSE IntOfText(values[i].s) :
        i \in {j \in DOMAIN values :
                  \/ values[j].k = "int"
                  \/ values[j].k = "str" /\ IsIntText(values[j].s)}}
SetMin(S) == CHOOSE x \in S : \A y \in S : x <= y
SetMax(S) == CHOOSE x \in S : \A y \in S : x >= y

\* tolerance = total_range * 0.05, so "gap > tolerance" is "20 * gap > total_range".
ToleranceDivisor == 20

_check_empty_date_range_gaps(recs, rep) ==
    LET cols == Range(Columns(recs))
        timestamps == ToNumeric(Column(recs, "timestamp"))
        ranges == Column(recs, "date_range")
        parsed == {i \in DOMAIN ranges : ranges[i].k = "str" /\ IsWindowText(ranges[i].s)}
        window == WindowOf(ranges[SetMin(parsed)].s)
        requested_start_ts == DateEpoch(window[1])
        requested_end_ts == DateEpoch(window[2])
        total_range == requested_end_ts - requested_start_ts
        start_gap == SetMin(timestamps) - requested_start_ts
        end_gap == requested_end_ts - SetMax(timestamps)
        startMsg ==
            IF ToleranceDivisor * start_gap > total_range
            THEN <<"Empty data range gap at start: data begins "
                     \o ToString(start_gap \div SecondsPerDay)
                     \o " day(s) after requested start date">>
            ELSE <<>>
        endMsg ==
            IF ToleranceDivisor * end_gap > total_range
            THEN <<"Empty data range gap at end: data ends "
                     \o ToString(end_gap \div SecondsPerDay)
                     \o " day(s) before requested end date">>
            ELSE <<>>
    IN  IF "timestamp" \notin cols \/ "date_range" \notin cols THEN rep
        ELSE IF timestamps = {} \/ parsed = {} THEN rep
        ELSE IF total_range <= 0 THEN rep
        ELSE [rep EXCEPT !.anomalies = @ \o startMsg \o endMsg,
                            !.valid = IF startMsg \o endMsg # <<>> THEN FALSE ELSE @]

_check_anomalies(recs, rep, pandas) ==
    _check_empty_date_range_gaps(recs,
        _check_zero_extracted_values(recs,
            _check_null_values(recs, rep, pandas)))

\* validate_trends_data without its "if not records" branch.
ValidateNoEmptyGuard(recs, expected_search_terms, pandas) ==
    _check_anomalies(recs,
        _check_search_term_coverage(recs, expected_search_terms,
            _check_schema(recs, NewReport(recs), pandas)),
        pandas)

validate_trends_data(recs, expected_search_terms, pandas) ==
    IF recs = <<>> THEN [NewReport(recs) EXCEPT !.valid = FALSE]
    ELSE _check_anomalies(recs,
             _check_search_term_coverage(recs, expected_search_terms,
                 _check_schema(recs, NewReport(recs), pandas)),
             pandas)

\* The records of this model: the record of the tests' _record() and its
\* variations, one defect each.
BaseRecord ==
    [c \in Range(SchemaOrder) |->
        CASE c = "query" -> PyStr("vpn")
          [] c = "location" -> PyStr("US")
          [] c = "date" -> PyStr("W1")
          [] c = "value" -> PyStr("80")
          [] c = "extracted_value" -> PyInt(80)
          [] OTHER -> PyStr("2025-01-15 12:00:00 +0000")]
With(rec, key, v) == [c \in DOMAIN rec \cup {key} |-> IF c = key THEN v ELSE rec[c]]
Without(rec, keys) == [c \in DOMAIN rec \ keys |-> rec[c]]
Ranged(rec, ts, w) ==
    With(With(rec, "timestamp", PyStr(EpochText[ts])), "date_range", PyStr(WindowText[w]))

ValidatorPool == {
    BaseRecord,
    With(BaseRecord, "query", PyStr("antivirus")),
    With(BaseRecord, "query", PyStr("bonus")),
    With(BaseRecord, "query", PyStr("")),
    With(BaseRecord, "date", PyStr("W2")),
    With(BaseRecord, "date", PyNone),
    With(BaseRecord, "value", PyNone),
    With(BaseRecord, "value", PyStr(" ")),
    With(BaseRecord, "value", PyInt(80)),
    With(BaseRecord, "extracted_value", PyInt(0)),
    With(BaseRecord, "extracted_value", PyNone),
    With(BaseRecord, "extracted_value", PyStr("80")),
    With(BaseRecord, "bonus_col", PyStr("oops")),
    Without(BaseRecord, {"value", "extracted_value", "created_at"}),
    Without(BaseRecord, {"query"}),
    Ranged(BaseRecord, 1736035200, <<<<2025, 1, 1>>, <<2025, 1, 21>>>>),
    Ranged(BaseRecord, 1736035200, <<<<2025, 1, 5>>, <<2025, 1, 12>>>>),
    Ranged(BaseRecord, 1736640000, <<<<2025, 1, 5>>, <<2025, 1, 12>>>>) }

MaxRecords == 2
ExpectedTerms == {<<>>, <<"vpn">>, <<"vpn", "antivirus">>}
NoReport ==
    [record_count |-> -1, schema_errors |-> <<>>, coverage_gaps |-> <<>>,
     anomalies |-> <<>>, valid |-> FALSE]

InitVal ==
    /\ validated = <<>>
    /\ expected_terms = <<>>
    /\ pandas_version = 2
    /\ report = NoReport

\* One call validate_trends_data(records, expected_search_terms), under either
\* pandas major version.
Validate ==
    /\ report = NoReport
    /\ \E n \in 0..MaxRecords : \E recs \in [1..n -> ValidatorPool] :
       \E terms \in ExpectedTerms, p \in PandasVersions :
          /\ validated' = recs
          /\ expected_terms' = terms
          /\ pandas_version' = p
          /\ report' = validate_trends_data(recs, terms, p)

NextVal == Validate /\ UNCHANGED <<fetchVars, csvVars, normVars, loopVars, raceVars, checkVars>>

(***************************************************************************)
(* dags/daily_search_dag.py: the per-term loop of fetch_google_trends       *)
(***************************************************************************)
\* What fetch_with_retry(params) does for one term: it returns a response or
\* raises the error of its last attempt (see Attempt). The responses: one point
\* with one value entry for the term, one without interest_over_time, and one
\* whose point has null values (normalize raises TypeError on it).
TermResponse(term, shape) ==
    CASE shape = "point" ->
            Response("dict", FALSE,
                     PyList(<<TimelinePoint(PyStr("1736035200"), PyStr(Label),
                                PyList(<<ValueEntry(PyStr(term), PyStr("80"), PyInt(80))>>))>>),
                     PyStr("2025-01-15 12:00:00 UTC"))
      [] shape = "empty" -> Response("absent", FALSE, Missing, Missing)
      [] OTHER ->
            Response("dict", FALSE,
                     PyList(<<TimelinePoint(PyStr("1736035200"), PyStr(Label), PyNone)>>),
                     Missing)
ResponseShapes == {"point", "empty", "nullvalues"}
\* reraise=True: what leaves fetch_with_retry is the error of the last attempt.
FetchRaises == {"SerpApiPermanentError", "SerpApiTransientError"} \cup NetworkExceptions
FetchOutcomes == ResponseShapes \cup FetchRaises

SearchTerms == {"vpn", "antivirus", "ad blocker"}
MaxTerms == 3
\* The search_terms Variable: a list naming each of its terms once.
TermLists ==
    UNION {{l \in [1..n -> SearchTerms] : \A i, j \in 1..n : l[i] = l[j] => i = j} :
              n \in 0..MaxTerms}
ApiKeys == {"", "key"}

InitLoop ==
    /\ loop_pc = "start"
    /\ search_terms = <<>>
    /\ next_term = 1
    /\ all_results = <<>>
    /\ fetched = <<>>
    /\ loop_raised = NoExc

\* Lines 64-73: read the Variables; an unset serpapi_key is a ValueError. With
\* no term to fetch the loop is over at once.
StartLoop ==
    /\ loop_pc = "start"
    /\ \E terms \in TermLists, api_key \in ApiKeys :
          /\ search_terms' = terms
          /\ IF api_key = ""
             THEN loop_pc' = "raised" /\ loop_raised' = "ValueError"
             ELSE /\ loop_pc' = IF terms = <<>> THEN "returned" ELSE "loop"
                  /\ loop_raised' = NoExc
    /\ UNCHANGED <<next_term, all_results, fetched>>

\* An iteration without the "except SerpApiPermanentError" clause.
IterationNoCatch(results, term, outcome) ==
    IF outcome \in FetchRaises
    THEN [exc |-> outcome, results |-> results]
    ELSE LET normalized == normalize_trends_response(TermResponse(term, outcome), "US")
         IN  IF normalized.state = "returned"
             THEN [exc |-> NoExc, results |-> With(results, term, normalized.out)]
             ELSE [exc |-> normalized.state, results |-> results]

\* An iteration whose except clause catches every error of the fetch.
IterationCatchAll(results, term, outcome) ==
    IF outcome \in FetchRaises
    THEN [exc |-> NoExc, results |-> With(results, term, <<>>)]
    ELSE LET normalized == normalize_trends_response(TermResponse(term, outcome), "US")
         IN  IF normalized.state = "returned"
             THEN [exc |-> NoExc, results |-> With(results, term, normalized.out)]
             ELSE [exc |-> normalized.state, results |-> results]

\* The body of one iteration on search_terms[next_term], given what
\* fetch_with_retry does: the exception that leaves it, and all_results after.
Iteration(results, term, outcome) ==
    IF outcome = "SerpApiPermanentError"
    THEN [exc |-> NoExc, results |-> With(results, term, <<>>)]   \* except: continue
    ELSE IF outcome \in FetchRaises
    THEN [exc |-> outcome, results |-> results]
    ELSE LET normalized == normalize_trends_response(TermResponse(term, outcome), "US")
         IN  IF normalized.state = "returned"
             THEN [exc |-> NoExc, results |-> With(results, term, normalized.out)]
             ELSE [exc |-> normalized.state, results |-> results]

\* One iteration of "for search_term in search_terms"; after the last one the
\* function returns all_results.
FetchTerm ==
    /\ loop_pc = "loop"
    /\ \E outcome \in FetchOutcomes :
          LET term == search_terms[next_term]
              after == Iteration(all_results, term, outcome)
          IN  /\ fetched' = Append(fetched, <<term, outcome>>)
              /\ all_results' = after.results
              /\ loop_raised' = after.exc
              /\ loop_pc' = IF after.exc # NoExc THEN "raised"
                            ELSE IF next_term = Len(search_terms) THEN "returned"
                            ELSE "loop"
              /\ next_term' = IF after.exc # NoExc THEN next_term ELSE next_term + 1
    /\ UNCHANGED search_terms

NextLoop ==
    \/ StartLoop /\ UNCHANGED <<fetchVars, csvVars, normVars, valVars, raceVars, checkVars>>
    \/ FetchTerm /\ UNCHANGED <<fetchVars, csvVars, normVars, valVars, raceVars, checkVars>>

(***************************************************************************)
(* The specifications.                                                     *)
(***************************************************************************)
InitF == InitFetch /\ InitCsv /\ InitNorm /\ InitVal
           /\ InitLoop /\ InitRace /\ InitCheck
InitC == InitCsv /\ InitFetch /\ InitNorm /\ InitVal
           /\ InitLoop /\ InitRace /\ InitCheck
InitN == InitNorm /\ InitFetch /\ InitCsv /\ InitVal
           /\ InitLoop /\ InitRace /\ InitCheck
InitV == InitVal /\ InitFetch /\ InitCsv /\ InitNorm
           /\ InitLoop /\ InitRace /\ InitCheck
InitL == InitLoop /\ InitFetch /\ InitCsv /\ InitNorm
           /\ InitVal /\ InitRace /\ InitCheck
InitR == InitRace /\ InitFetch /\ InitCsv /\ InitNorm
           /\ InitVal /\ InitLoop /\ InitCheck
InitK == InitCheck /\ InitFetch /\ InitCsv /\ InitNorm
           /\ InitVal /\ InitLoop /\ InitRace

SpecFetch == InitF /\ [][NextFetch]_vars
SpecCsv == InitC /\ [][NextCsv]_vars
SpecNorm == InitN /\ [][NextNorm]_vars
SpecVal == InitV /\ [][NextVal]_vars
SpecLoop == InitL /\ [][NextLoop]_vars
SpecRace == InitR /\ [][NextRace]_vars
SpecCheck == InitK /\ [][NextCheck]_vars

(***************************************************************************)
(* Properties of fetch_with_retry (checked under SpecFetch).               *)
(***************************************************************************)
TransientFailures == NetworkExceptions \cup {"SerpApiTransientError"}
AllTransient == \A i \in DOMAIN outcomes : outcomes[i] \in TransientFailures

\* C1: fetch_with_retry never makes more than 5 attempts, whatever the attempts
\* do; and when every attempt fails with a transient failure (a transient
\* application-level error or a network-level exception) it raises only after
\* exactly 5 attempts, and does raise then.
C1_AtMostFiveAttempts ==
    /\ Len(outcomes) <= 5
    /\ attempt_number <= 5
    /\ (pc = "raised" /\ AllTransient) => Len(outcomes) = 5
    /\ (AllTransient /\ Len(outcomes) = 5) => (pc = "raised" /\ raised = outcomes[5])

C1_Witness ==
    /\ pc = "raised"
    /\ Len(outcomes) = 5
    /\ AllTransient
    /\ "SerpApiTransientError" \in Range(outcomes)
    /\ "Timeout" \in Range(outcomes)
    /\ Len(slept) = 4

\* C2: an attempt that yields a permanent error raises it itself: it is the last
\* attempt, fetch_with_retry has raised that error, and no backoff wait follows
\* it (one wait per earlier attempt, none after), on the first attempt or later.
C2_PermanentRaisesAtOnce ==
    \A i \in DOMAIN outcomes :
        outcomes[i] = "SerpApiPermanentError" =>
            /\ i = Len(outcomes)
            /\ pc = "raised"
            /\ raised = "SerpApiPermanentError"
            /\ Len(slept) = i - 1

C2_Witness ==
    /\ Len(outcomes) = 3
    /\ outcomes[1] = "SerpApiTransientError"
    /\ outcomes[2] = "ConnectionError"
    /\ outcomes[3] = "SerpApiPermanentError"
    /\ pc = "raised"

(***************************************************************************)
(* Properties of write_trends_csv (checked under SpecCsv).                 *)
(***************************************************************************)
TextKey(row) == <<row.query, row.date, row.location>>
\* A record as one CSV row: its str fields as they are, its int in decimal.
RecordText(rec) ==
    Row(rec.query, rec.location, rec.date, rec.value,
        ToString(rec.extracted_value), rec.created_at)
RowsWithKey(rows, k) == {i \in DOMAIN rows : TextKey(rows[i]) = k}
BatchKeys(recs) == {TextKey(recs[i]) : i \in DOMAIN recs}

\* C3: after any sequence of write_trends_csv calls on one destination, from an
\* absent file and with any batches, the file holds at most one row per
\* (query, date, location).
C3_OneRowPerKey ==
    \A i, j \in DOMAIN file.rows :
        TextKey(file.rows[i]) = TextKey(file.rows[j]) => i = j

\* C4: when a non-empty batch is merged into an existing destination, each key
\* of the existing rows and the new records has exactly one row afterwards, and
\* that row is the one with the greatest created_at among them.
C4_GreatestCreatedAtWins ==
    [][(file.exists /\ batch' # <<>>) =>
         \A k \in BatchKeys(file.rows) \cup BatchKeys(batch') :
            LET candidates ==
                    {file.rows[i] : i \in RowsWithKey(file.rows, k)}
                      \cup {RecordText(batch'[j]) : j \in RowsWithKey(batch', k)}
                stored == RowsWithKey(file'.rows, k)
            IN  /\ Cardinality(stored) = 1
                /\ \A i \in stored :
                      /\ file'.rows[i] \in candidates
                      /\ \A c \in candidates :
                            RankOf(c.created_at) <= RankOf(file'.rows[i].created_at)
      ]_vars

\* C5: when two successive calls both persist a record with the same key, the
\* row stored for that key after the second call carries the values of the
\* second call's record.
C5_LaterCallSupersedes ==
    [][called =>
         \A k \in BatchKeys(batch) \cap BatchKeys(batch') :
            /\ RowsWithKey(file'.rows, k) # {}
            /\ \A i \in RowsWithKey(file'.rows, k) :
                  file'.rows[i] \in
                      {RecordText(batch'[j]) : j \in RowsWithKey(batch', k)}
      ]_vars

\* C6: persisting a batch a second time in a row leaves the same set of stored
\* rows as persisting it once.
C6_Idempotent ==
    [][(called /\ batch' = batch) =>
         (file'.exists = file.exists /\ Range(file'.rows) = Range(file.rows))
      ]_vars

\* C7: a call with no records changes nothing: an existing file keeps exactly
\* its rows and an absent file stays absent.
C7_EmptyBatchIsNoOp ==
    [][(batch' = <<>>) => (file' = file)]_vars

C7_Witness ==
    /\ called
    /\ batch = <<>>
    /\ existed
    /\ file.exists
    /\ Len(file.rows) = 2

\* C21: a write_trends_csv call with a non-empty batch never loses a key: the
\* keys stored afterwards are the keys stored before together with the keys
\* of the batch, and every stored row whose key is not in the batch is a row
\* that was stored before, with the same field values.
C21_NoKeyLost ==
    [][(batch' # <<>>) =>
         /\ BatchKeys(file'.rows) = BatchKeys(file.rows) \cup BatchKeys(batch')
         /\ \A i \in DOMAIN file'.rows :
               TextKey(file'.rows[i]) \notin BatchKeys(batch')
                   => file'.rows[i] \in Range(file.rows)
      ]_vars

\* The first half alone: no key disappears and none appears from nowhere.
C21_KeysKept ==
    [][(batch' # <<>>) =>
         BatchKeys(file'.rows) = BatchKeys(file.rows) \cup BatchKeys(batch')
      ]_vars

(***************************************************************************)
(* Properties of normalize_trends_response (checked under SpecNorm).       *)
(***************************************************************************)
InterestMissing ==
    \/ response.interest \in {"absent", "none"}
    \/ response.interest = "dict" /\ ~response.other
         /\ response.timeline_data.k = "absent"          \* {}
TimelineMissing ==
    \/ response.timeline_data.k \in {"absent", "none"}
    \/ response.timeline_data.k = "list" /\ response.timeline_data.items = <<>>

\* C8: for a response whose interest_over_time is absent, null or empty, or
\* whose timeline_data is absent, null or empty, normalize_trends_response
\* returns the empty sequence and raises nothing.
C8_EmptyInputsGiveNoRecords ==
    (records # NotCalled /\ (InterestMissing \/ TimelineMissing)) =>
        (records.state = "returned" /\ records.out = <<>>)

C8_Witness ==
    /\ records.state = "returned"
    /\ response.interest = "dict"
    /\ response.other
    /\ response.timeline_data.k = "none"

\* The points of the response, and whether each one holds exactly m entries.
ResponsePoints == response.timeline_data.items
Uniform(m) ==
    /\ response.interest = "dict"
    /\ response.timeline_data.k = "list"
    /\ \A p \in DOMAIN ResponsePoints :
          /\ ResponsePoints[p].values.k = "list"
          /\ Len(ResponsePoints[p].values.items) = m

OrDefault(v, default) == IF v.k = "absent" THEN default ELSE v

\* C9: for a response of N points with M value entries each, the call returns
\* exactly N*M records; the record at place (p-1)*M + j is the one of entry j of
\* point p: it carries that entry's fields and the time of that point.
C9_PointMajorOrder ==
    \A m \in 0..(MaxValues + 1) :
        (records # NotCalled /\ Uniform(m)) =>
            /\ records.state = "returned"
            /\ Len(records.out) = Len(ResponsePoints) * m
            /\ \A p \in DOMAIN ResponsePoints : \A j \in 1..m :
                  LET rec == records.out[(p - 1) * m + j]
                      entry == ResponsePoints[p].values.items[j]
                  IN  /\ rec.query = OrDefault(entry.query, PyStr(""))
                      /\ rec.value = OrDefault(entry.value, PyStr(""))
                      /\ rec.extracted_value = OrDefault(entry.extracted_value, PyInt(0))
                      /\ rec.date.s =
                            _format_timestamp(OrDefault(ResponsePoints[p].timestamp,
                                                        PyStr("")))

C9_Witness ==
    /\ records.state = "returned"
    /\ Uniform(2)
    /\ Len(ResponsePoints) = 2
    /\ Len(records.out) = 4
    /\ ResponsePoints[1].timestamp # ResponsePoints[2].timestamp
    /\ ResponsePoints[1].values.items[1] # ResponsePoints[1].values.items[2]

\* The number of records the points before point p contribute.
RECURSIVE RecordsBefore(_)
RecordsBefore(p) ==
    IF p = 1 THEN 0
    ELSE RecordsBefore(p - 1)
           + Len(OrDefault(ResponsePoints[p - 1].values, PyList(<<>>)).items)

\* C10: every emitted record has its six fields present and non-null; an entry
\* lacking query / value / extracted_value yields "" / "" / 0, and a point
\* lacking its date yields date "".
C10_DefaultsNeverNull ==
    records.state = "returned" =>
        /\ \A i \in DOMAIN records.out :
              \A v \in {records.out[i].query, records.out[i].location,
                        records.out[i].date, records.out[i].value,
                        records.out[i].extracted_value, records.out[i].created_at} :
                  v.k \notin {"absent", "none"}
        /\ records.out # <<>> =>
              \A p \in DOMAIN ResponsePoints :
                 \A j \in DOMAIN OrDefault(ResponsePoints[p].values, PyList(<<>>)).items :
                    LET rec == records.out[RecordsBefore(p) + j]
                        entry == ResponsePoints[p].values.items[j]
                    IN  /\ entry.query.k = "absent" => rec.query = PyStr("")
                        /\ entry.value.k = "absent" => rec.value = PyStr("")
                        /\ entry.extracted_value.k = "absent"
                              => rec.extracted_value = PyInt(0)
                        /\ ResponsePoints[p].date.k = "absent" => rec.date = PyStr("")

\* C11: the date of every emitted record is the date label (the `date` entry)
\* of the timeline point it was produced from, "" when the point has none.
C11_DateIsPointLabel ==
    records.state = "returned" =>
        \A p \in DOMAIN ResponsePoints :
           \A j \in DOMAIN OrDefault(ResponsePoints[p].values, PyList(<<>>)).items :
              records.out[RecordsBefore(p) + j].date
                  = OrDefault(ResponsePoints[p].date, PyStr(""))

\* A point without a value-entries sequence: values absent, null or empty.
NoValues(point) ==
    \/ point.values.k \in {"absent", "none"}
    \/ point.values.k = "list" /\ point.values.items = <<>>

\* C12: when some point of the timeline has no value-entries sequence, the call
\* still returns, that point contributes no record and every point contributes
\* one record per value entry it has.
C12_EmptyPointIsSkipped ==
    (/\ records # NotCalled
     /\ response.interest = "dict"
     /\ response.timeline_data.k = "list"
     /\ \E p \in DOMAIN ResponsePoints : NoValues(ResponsePoints[p])) =>
        /\ records.state = "returned"
        /\ Len(records.out) = RecordsBefore(Len(ResponsePoints) + 1)
        /\ \A p \in DOMAIN ResponsePoints :
              \A j \in DOMAIN OrDefault(ResponsePoints[p].values, PyList(<<>>)).items :
                 records.out[RecordsBefore(p) + j].query
                     = OrDefault(ResponsePoints[p].values.items[j].query, PyStr(""))

(***************************************************************************)
(* Properties of validate_trends_data (checked under SpecVal).             *)
(***************************************************************************)
Validated == report # NoReport

\* C13: for an empty record sequence and any expected terms the call returns a
\* report with record_count 0, valid false and the three lists present, empty.
C13_EmptyInputIsInvalid ==
    (Validated /\ validated = <<>>) =>
        report = [record_count |-> 0, schema_errors |-> <<>>,
                  coverage_gaps |-> <<>>, anomalies |-> <<>>, valid |-> FALSE]

C13_Witness ==
    /\ Validated
    /\ validated = <<>>
    /\ expected_terms = <<"vpn", "antivirus">>
    /\ ~report.valid

\* The dates present in the records, and the expected terms that are the query
\* of no record with a given date.
DatesPresent ==
    {validated[i].date.s :
        i \in {j \in DOMAIN validated :
                  "date" \in DOMAIN validated[j] /\ validated[j].date.k = "str"}}
HasQuery(rec, t) == "query" \in DOMAIN rec /\ rec.query = PyStr(t)
HasDate(rec, d) == "date" \in DOMAIN rec /\ rec.date = PyStr(d)
MissingAt(d) ==
    {t \in Range(expected_terms) :
        \A i \in DOMAIN validated :
            HasDate(validated[i], d) => ~HasQuery(validated[i], t)}
GapMessage(d) ==
    "Date " \o d \o ": missing search terms " \o Repr(sorted(MissingAt(d)))
GapMessages == {GapMessage(d) : d \in {e \in DatesPresent : MissingAt(e) # {}}}
ExactlyTheGapMessages ==
    /\ Range(report.coverage_gaps) = GapMessages
    /\ Len(report.coverage_gaps) = Cardinality(GapMessages)
    /\ GapMessages # {} => ~report.valid

AnyQueryKey == \E i \in DOMAIN validated : "query" \in DOMAIN validated[i]
IsZeroMessage(m) ==
    \E n \in 1..(MaxRecords + 1) :
        m = ToString(n) \o " record(s) with zero extracted_value"

\* C15: valid starts true and no check sets it back to true; the zero-value
\* check leaves it as it is; the returned valid is true exactly when there are
\* records, no schema error, no coverage gap and no anomaly but the zero one.
C15_ValidIsMonotone ==
    LET \* the report after each check, in the order the code runs them
        afterSchema == _check_schema(validated, NewReport(validated), pandas_version)
        afterCoverage ==
            _check_search_term_coverage(validated, expected_terms, afterSchema)
        afterNulls == _check_null_values(validated, afterCoverage, pandas_version)
        afterZeros == _check_zero_extracted_values(validated, afterNulls)
        afterGaps == _check_empty_date_range_gaps(validated, afterZeros)
    IN  Validated =>
            /\ NewReport(validated).valid
            /\ validated # <<>> =>
                  /\ report = afterGaps
                  /\ ~afterSchema.valid => ~afterCoverage.valid
                  /\ ~afterCoverage.valid => ~afterNulls.valid
                  /\ afterZeros.valid = afterNulls.valid
                  /\ ~afterZeros.valid => ~afterGaps.valid
            /\ report.valid <=>
                  /\ validated # <<>>
                  /\ report.schema_errors = <<>>
                  /\ report.coverage_gaps = <<>>
                  /\ \A i \in DOMAIN report.anomalies :
                        IsZeroMessage(report.anomalies[i])

C15_Witness ==
    /\ Validated
    /\ Len(validated) = 2
    /\ report.valid
    /\ report.anomalies = <<"1 record(s) with zero extracted_value">>

\* The fields present on the records, and the records in which a field is
\* null or missing or holds an empty or whitespace-only str.
FieldsPresent == UNION {DOMAIN validated[i] : i \in DOMAIN validated}
IsBlank(v) == v.k = "str" /\ v.s \in {""} \cup WhitespaceOnly
NullOrEmpty(c) ==
    {i \in DOMAIN validated :
        \/ c \notin DOMAIN validated[i]
        \/ validated[i][c].k = "none"
        \/ IsBlank(validated[i][c])}
NullMessage(c, n) ==
    "Column '" \o c \o "' has " \o ToString(n) \o " null/empty value(s)"
NullMessagesFor(c) ==
    {i \in DOMAIN report.anomalies :
        \E n \in 0..(MaxRecords + 1) : report.anomalies[i] = NullMessage(c, n)}

\* C16: for every field present on the records there is exactly one null/empty
\* message when some record has the field null, missing, empty or
\* whitespace-only, it states how many records do, and valid is false; there is
\* no such message for a field no record has so.
C16_NullMessagePerField ==
    (Validated /\ validated # <<>>) =>
        \A c \in FieldsPresent :
            IF NullOrEmpty(c) = {}
            THEN NullMessagesFor(c) = {}
            ELSE /\ Cardinality(NullMessagesFor(c)) = 1
                 /\ \A i \in NullMessagesFor(c) :
                       report.anomalies[i] = NullMessage(c, Cardinality(NullOrEmpty(c)))
                 /\ ~report.valid

\* The type class of a field over the records: the class of its values, null
\* and missing ones aside (those are the null check's matter).
ValuesOfField(c) ==
    {validated[i][c] : i \in {j \in DOMAIN validated : c \in DOMAIN validated[j]}}
NumericTyped(c) == \A v \in ValuesOfField(c) : v.k \in {"int", "none"}
StringTyped(c) == \A v \in ValuesOfField(c) : v.k \in {"str", "none"}
CanonicalFields ==
    {"query", "location", "date", "value", "extracted_value", "created_at"}

\* C17: for a non-empty input schema_errors is empty exactly when the fields
\* present are the canonical six, extracted_value is numeric-typed and every
\* other field string-typed; a schema error makes valid false.
C17_SchemaErrorsExact ==
    (Validated /\ validated # <<>>) =>
        /\ report.schema_errors = <<>> <=>
              /\ FieldsPresent = CanonicalFields
              /\ NumericTyped("extracted_value")
              /\ \A c \in CanonicalFields \ {"extracted_value"} : StringTyped(c)
        /\ report.schema_errors # <<>> => ~report.valid

(***************************************************************************)
(* Properties of the per-term fetch loop (checked under SpecLoop).         *)
(***************************************************************************)
PermanentAt(k) == fetched[k][2] = "SerpApiPermanentError"

\* C18: a permanent API error for a term is caught for that term only. The
\* error never leaves the loop and never ends it; the term maps to the empty
\* list; the terms are fetched in the order of search_terms; and when the loop
\* has returned every term was fetched and each other term has its own records.
C18_PermanentErrorSkipsTerm ==
    /\ loop_raised # "SerpApiPermanentError"
    /\ \A k \in DOMAIN fetched :
          /\ fetched[k][1] = search_terms[k]
          /\ PermanentAt(k) =>
                /\ fetched[k][1] \in DOMAIN all_results
                /\ all_results[fetched[k][1]] = <<>>
                /\ k = Len(fetched) =>
                      loop_pc = (IF k = Len(search_terms) THEN "returned" ELSE "loop")
    /\ loop_pc = "returned" =>
          /\ Len(fetched) = Len(search_terms)
          /\ DOMAIN all_results = Range(search_terms)
          /\ \A k \in DOMAIN fetched :
                LET own == all_results[fetched[k][1]]
                IN  /\ fetched[k][2] = "point" =>
                          Len(own) = 1 /\ own[1].query = PyStr(fetched[k][1])
                    /\ fetched[k][2] = "empty" => own = <<>>

C18_Witness ==
    /\ loop_pc = "returned"
    /\ Len(fetched) = 2
    /\ PermanentAt(1)
    /\ fetched[2][2] = "point"
    /\ all_results[search_terms[1]] = <<>>
    /\ Len(all_results[search_terms[2]]) = 1

(***************************************************************************)
(* Properties of concurrent write_trends_csv calls (checked under SpecRace). *)
(***************************************************************************)
AllReturned == \A w \in Writers : wpc[w] = "idle"
PersistedKeys == {TextKey(RecordText(rec)) : rec \in persisted}
LostKeys == PersistedKeys \ BatchKeys(file.rows)

C20_ThreeOutcomes ==
    verdict # "pending" =>
        /\ verdict \in {NoExc, "SerpApiTransientError", "SerpApiPermanentError"}
        /\ (verdict = NoExc) <=> ~checked.hasError
        /\ (verdict = "SerpApiTransientError")
              <=> (checked.hasError /\ checked.vocabulary)
        /\ (verdict = "SerpApiPermanentError")
              <=> (checked.hasError /\ ~checked.vocabulary)

\* An upper-case keyword inside a longer text has been classified transient.
C20_Witness ==
    /\ verdict = "SerpApiTransientError"
    /\ checked.error =
          ErrorText(<<"E","r","r","o","r",":"," ">>,
                    <<"T","I","M","E","D"," ","O","U","T">>, <<"!">>)

(***************************************************************************)
(* The fetch loop and the errors it does not catch (checked under SpecLoop). *)
(***************************************************************************)
\* The errors fetch_with_retry raises once its attempts are used up.
Exhausted == {"SerpApiTransientError"} \cup NetworkExceptions
ExhaustedAt(k) == fetched[k][2] \in Exhausted

\* C22: a fetch failure that is not a permanent API error is not caught per
\* term. The error leaves fetch_google_trends at the failing term: the
\* function never returns a mapping, not even for the terms fetched before,
\* and no term after the failing one is requested.
C22_OtherErrorAbortsLoop ==
    \A k \in DOMAIN fetched :
        ExhaustedAt(k) =>
            /\ k = Len(fetched)
            /\ loop_pc = "raised"
            /\ loop_raised = fetched[k][2]
            /\ \A j \in DOMAIN fetched : fetched[j][1] = search_terms[j]
            /\ \A j \in DOMAIN search_terms :
                  j > k => \A i \in DOMAIN fetched : fetched[i][1] # search_terms[j]

\* Three terms: the first fetched with a record, the second failing with a
\* transient error, the third never requested.
C22_Witness ==
    /\ Len(search_terms) = 3
    /\ Len(fetched) = 2
    /\ fetched[1][2] = "point"
    /\ Len(all_results[search_terms[1]]) = 1
    /\ fetched[2][2] = "SerpApiTransientError"
    /\ loop_pc = "raised"
    /\ loop_raised = "SerpApiTransientError"

====
